---- MODULE Spec2Model ----
(***************************************************************************)
(* A model of dashboard.py: the memoized spreadsheet load (load_data under *)
(* st.cache_data), the normalisation of the sheet into invoice records,    *)
(* the paid / pending partition, the global filters and the three page     *)
(* renderers.  One run of the script (one Streamlit render cycle) is one   *)
(* action, Rerun.                                                          *)
(*                                                                         *)
(* Text is modelled as a sequence of Unicode code points, so that          *)
(* str.isdigit, int(), str() and sorted() are computed and not assumed.    *)
(* A timestamp is a whole number of hours since an epoch, so that          *)
(* Timestamp.date() (truncation) and pd.to_datetime(date) (midnight) are   *)
(* computed as well.  Amounts are integers.                                *)
(***************************************************************************)
EXTENDS Integers, Sequences, FiniteSets, TLC

VARIABLES
    disk,     \* the file system: path -> file content
    now,      \* seconds on the monotonic clock of the server process
    secrets,  \* st.secrets["file_credentials"]: (path, sheet_name, password)
    cache,    \* the st.cache_data store of load_data: key -> entry
    reads,    \* history: (path, sheet, password) -> the times load_data opened the file
    cycle     \* what the last run of the script did

vars == <<disk, now, secrets, cache, reads, cycle>>

----------------------------------------------------------------------------
(* Bounds of the model *)

MaxTime == 900
TickStep == 300
MaxRows == 2
MaxDay == 2

(* Program constants *)

TTL == 600
HoursPerDay == 24
NaT == -1

----------------------------------------------------------------------------
(* Text *)

Digits == 48..57

S_NaoInformado == <<78, 227, 111, 32, 105, 110, 102, 111, 114, 109, 97, 100, 111>>
S_NaoInformada == <<78, 227, 111, 32, 105, 110, 102, 111, 114, 109, 97, 100, 97>>
S_NA == <<78, 47, 65>>
S_Acme == <<65, 99, 109, 101>>
S_USD == <<85, 83, 68>>
S_abc == <<97, 98, 99>>
S_1500c50 == <<49, 53, 48, 48, 44, 53, 48>>
S_7 == <<55>>
S_07 == <<48, 55>>
S_10 == <<49, 48>>
S_A1 == <<65, 49>>
S_ND1 == <<78, 68, 49>>

\* str.isdigit(): non-empty and every character a digit
IsDigit(s) == Len(s) > 0 /\ \A i \in 1..Len(s) : s[i] \in Digits

\* int(s) for a string of digits
RECURSIVE IntOf(_)
IntOf(s) ==
    IF Len(s) = 0 THEN 0
    ELSE 10 * IntOf(SubSeq(s, 1, Len(s) - 1)) + (s[Len(s)] - 48)

\* str(n) for n >= 0: the decimal digits, no leading zero
RECURSIVE StrOfNat(_)
StrOfNat(n) ==
    IF n < 10 THEN <<48 + n>>
    ELSE Append(StrOfNat(n \div 10), 48 + (n % 10))

\* str(n) for an integer
StrOfInt(n) == IF n < 0 THEN <<45>> \o StrOfNat(0 - n) ELSE StrOfNat(n)

\* str(x) for a float holding a whole number: "7.0"
StrOfFloat(n) == StrOfInt(n) \o <<46, 48>>

\* a < b for str: by code point, a proper prefix first
StrLess(a, b) ==
    \E i \in 1..Len(b) :
        /\ \A j \in 1..(i - 1) : j <= Len(a) /\ a[j] = b[j]
        /\ (i > Len(a) \/ a[i] < b[i])

\* sorted(S) for a set of str
RECURSIVE SortedStrs(_)
SortedStrs(S) ==
    IF S = {} THEN <<>>
    ELSE LET m == CHOOSE x \in S : \A y \in S \ {x} : StrLess(x, y)
         IN  <<m>> \o SortedStrs(S \ {m})

Range(s) == {s[i] : i \in 1..Len(s)}

Max(S) == CHOOSE x \in S : \A y \in S : y <= x
Min(S) == CHOOSE x \in S : \A y \in S : x <= y

----------------------------------------------------------------------------
(* The sheet as pd.read_excel returns it *)

\* A cell: blank (NaN), a number, text, or a date-time
Blank == [t |-> "nan", n |-> 0, s |-> <<>>]
Num(k) == [t |-> "num", n |-> k, s |-> <<>>]
Str(x) == [t |-> "str", n |-> 0, s |-> x]
Dt(ts) == [t |-> "dt", n |-> ts, s |-> <<>>]

\* df.rename(columns={...}): source header -> canonical name
RenameMap ==
    [h \in {"Data de Pagamento", "Valor em R$", "Número do RM", "Correspondente",
            "ND recebida", "IOF", "TX CONTRATO", "IRRF", "CIDE", "Moeda", "Valor"} |->
        CASE h = "Data de Pagamento" -> "data_pagamento"
          [] h = "Valor em R$" -> "valor_principal_rs"
          [] h = "Número do RM" -> "numero_rm"
          [] h = "Correspondente" -> "correspondente"
          [] h = "ND recebida" -> "nd_recebida"
          [] h = "IOF" -> "iof"
          [] h = "TX CONTRATO" -> "tx_contrato"
          [] h = "IRRF" -> "irrf"
          [] h = "CIDE" -> "cide"
          [] h = "Moeda" -> "moeda"
          [] h = "Valor" -> "valor_moeda_origem"]

SourceColumns == DOMAIN RenameMap

cols_to_keep ==
    <<"data_pagamento", "valor_principal_rs", "numero_rm", "correspondente",
      "nd_recebida", "iof", "tx_contrato", "irrf", "cide", "moeda",
      "valor_moeda_origem">>

numeric_cols ==
    <<"valor_principal_rs", "iof", "tx_contrato", "irrf", "cide", "valor_moeda_origem">>

\* the header of a canonical column
HeaderOf(col) == CHOOSE h \in SourceColumns : RenameMap[h] = col

\* df = df[[col for col in cols_to_keep if col in df.columns]]: the columns left
KeptColumns(table) ==
    {c \in Range(cols_to_keep) : \E h \in table.columns : h \in SourceColumns /\ RenameMap[h] = c}

\* the columns lines 53-58 index, in the order they do
AccessOrder ==
    numeric_cols \o <<"numero_rm", "nd_recebida", "correspondente", "moeda", "data_pagamento">>

\* the first df[col] of lines 53-58 that raises KeyError; "" when none does
FirstKeyError(table) ==
    LET missing == {i \in 1..Len(AccessOrder) : AccessOrder[i] \notin KeptColumns(table)}
    IN  IF missing = {} THEN "" ELSE AccessOrder[Min(missing)]

\* float(s) as pd.to_numeric parses text: an optional sign and digits
ParsesAsNumber(s) ==
    \/ IsDigit(s)
    \/ Len(s) > 1 /\ s[1] = 45 /\ IsDigit(Tail(s))

NumberOf(s) == IF s[1] = 45 THEN 0 - IntOf(Tail(s)) ELSE IntOf(s)

\* pd.to_numeric(cell, errors='coerce'): the number, or NaN
ToNumericCoerce(cell) ==
    CASE cell.t = "num" -> [nan |-> FALSE, v |-> cell.n]
      [] cell.t = "str" /\ ParsesAsNumber(cell.s) -> [nan |-> FALSE, v |-> NumberOf(cell.s)]
      [] OTHER -> [nan |-> TRUE, v |-> 0]

\* a variant of FillNaZero that also turns a negative amount into 0
FillNaZero_Clamp(x) == IF x.nan \/ x.v < 0 THEN 0 ELSE x.v

\* .fillna(0) on a numeric value
FillNaZero(x) == IF x.nan THEN 0 ELSE x.v

\* line 53 for one cell
ToNumeric(cell) == FillNaZero(ToNumericCoerce(cell))

\* the dtype pandas gives a column of whole numbers and blanks: float64 when
\* some cell is blank and every other one a number
IsFloatColumn(table, h) ==
    /\ \A i \in 1..Len(table.rows) : table.rows[i][h].t \in {"num", "nan"}
    /\ \E i \in 1..Len(table.rows) : table.rows[i][h].t = "nan"

\* .fillna(default).astype(str) for one cell of column h
FillNaAsStr(table, h, cell, default) ==
    CASE cell.t = "nan" -> default
      [] cell.t = "num" -> IF IsFloatColumn(table, h) THEN StrOfFloat(cell.n)
                           ELSE StrOfInt(cell.n)
      [] OTHER -> cell.s

\* .fillna(default) for one cell of a text column
FillNa(cell, default) == IF cell.t = "nan" THEN default ELSE cell.s

\* pd.to_datetime(cell, errors='coerce', dayfirst=True): a date-time cell is
\* kept, a blank one and text that is no date become NaT
ToDatetime(cell) == IF cell.t = "dt" THEN cell.n ELSE NaT

\* a variant of Status with the two labels of np.where exchanged
Status_Swapped(data_pagamento) == IF data_pagamento # NaT THEN "Pendente" ELSE "Pago"

\* np.where(pd.notna(data_pagamento), 'Pago', 'Pendente')
Status(data_pagamento) == IF data_pagamento # NaT THEN "Pago" ELSE "Pendente"

\* line 60
ValorTotalPago(principal, iof, tx, irrf, cide) == principal + iof + tx + irrf + cide

\* lines 53-60 for row i of the sheet (idx: the label of the RangeIndex)
NormalizeRow(table, i) ==
    LET raw == table.rows[i]
        cell(col) == raw[HeaderOf(col)]
        dp == ToDatetime(cell("data_pagamento"))
        vp == ToNumeric(cell("valor_principal_rs"))
        io == ToNumeric(cell("iof"))
        tx == ToNumeric(cell("tx_contrato"))
        ir == ToNumeric(cell("irrf"))
        ci == ToNumeric(cell("cide"))
    IN  [idx |-> i - 1,
         data_pagamento |-> dp,
         valor_principal_rs |-> vp,
         iof |-> io,
         tx_contrato |-> tx,
         irrf |-> ir,
         cide |-> ci,
         valor_moeda_origem |-> ToNumeric(cell("valor_moeda_origem")),
         numero_rm |-> FillNaAsStr(table, HeaderOf("numero_rm"), cell("numero_rm"), S_NaoInformado),
         nd_recebida |-> FillNaAsStr(table, HeaderOf("nd_recebida"), cell("nd_recebida"), S_NaoInformada),
         correspondente |-> FillNa(cell("correspondente"), S_NaoInformado),
         moeda |-> FillNa(cell("moeda"), S_NA),
         status |-> Status(dp),
         valor_total_pago |-> ValorTotalPago(vp, io, tx, ir, ci)]

\* the normalized table (df after line 60)
Normalize(table) == [i \in 1..Len(table.rows) |-> NormalizeRow(table, i)]

\* df[df['status'] == 'Pago'], df[df['status'] == 'Pendente']
PaidOf(df) == SelectSeq(df, LAMBDA r : r.status = "Pago")
PendingOf(df) == SelectSeq(df, LAMBDA r : r.status = "Pendente")

----------------------------------------------------------------------------
(* Formatting *)

\* the digits of f"{n:,}": a comma before every group of three
RECURSIVE Group3(_)
Group3(d) ==
    IF Len(d) <= 3 THEN d
    ELSE Group3(SubSeq(d, 1, Len(d) - 3)) \o <<44>> \o SubSeq(d, Len(d) - 2, Len(d))

\* f"{n:,.2f}" for a whole amount
FormatFixed2(n) ==
    (IF n < 0 THEN <<45>> ELSE <<>>) \o Group3(StrOfNat(IF n < 0 THEN 0 - n ELSE n))
        \o <<46, 48, 48>>

\* .replace(",", "X").replace(".", ",").replace("X", ".")
SwapSeparators(s) ==
    [i \in 1..Len(s) |-> IF s[i] = 44 THEN 46 ELSE IF s[i] = 46 THEN 44 ELSE s[i]]

\* format_currency(value) for a number: "R$ 1.234,00"
format_currency(n) == <<82, 36, 32>> \o SwapSeparators(FormatFixed2(n))

----------------------------------------------------------------------------
(* load_data *)

\* the (None, None) of load_data, with the st.error messages it showed
NoneResult(msgs) == [isNone |-> TRUE, paid |-> <<>>, pending |-> <<>>, msgs |-> msgs]

ErrorMsg(kind, detail) == [kind |-> kind, detail |-> detail]

\* lines 43-47: the in-memory copy of the sheet gets the password when the
\* sheet is protected and a password is given; the copy is what is read
BufferOf(table, password) ==
    [table EXCEPT !.pwd = IF table.protected /\ password # "" THEN password ELSE @]

\* lines 48-61 on the sheet read back from the buffer
LoadSheet(table) ==
    IF FirstKeyError(table) # ""
    THEN NoneResult(<<ErrorMsg("erro_ao_carregar", {FirstKeyError(table)})>>)
    ELSE LET df == Normalize(table)
         IN  [isNone |-> FALSE, paid |-> PaidOf(df), pending |-> PendingOf(df),
              msgs |-> <<>>]

\* the body of load_data (lines 35-67)
load_data(file, file_path, sheet_name, password) ==
    CASE file.kind = "missing" ->
            NoneResult(<<ErrorMsg("arquivo_nao_encontrado", {file_path})>>)
      [] file.kind = "corrupt" ->
            NoneResult(<<ErrorMsg("erro_ao_carregar", {"load_workbook"})>>)
      [] OTHER ->
            IF sheet_name \notin DOMAIN file.sheets
            THEN NoneResult(<<ErrorMsg("aba_nao_encontrada", DOMAIN file.sheets)>>)
            ELSE LoadSheet(BufferOf(file.sheets[sheet_name], password))

\* a variant of Fresh that never serves a stored (None, None)
Fresh_SkipFailures(entry, t) ==
    entry.present /\ ~entry.value.isNone /\ t < entry.stamp + TTL

\* an entry of the st.cache_data store is served while it is younger than ttl
Fresh(entry, t) == entry.present /\ t < entry.stamp + TTL

NoEntry == [present |-> FALSE, stamp |-> 0, value |-> NoneResult(<<>>)]

\* a variant of CacheKey that leaves the password out of the key (what
\* st.cache_data does for an argument named with a leading underscore)
CacheKey_NoPassword(file_path, sheet_name, password) == <<file_path, sheet_name, "s3nha">>

\* the key st.cache_data derives from the arguments of the call
CacheKey(file_path, sheet_name, password) == <<file_path, sheet_name, password>>

----------------------------------------------------------------------------
(* The script below load_data: filters and pages *)

\* Timestamp.date(): the day of a date-time; NaT.date() is NaT
DateOf(ts) == IF ts = NaT THEN NaT ELSE ts \div HoursPerDay

\* pd.to_datetime(date): midnight of the day
Midnight(day) == day * HoursPerDay

\* Series.min() / Series.max() of data_pagamento: NaT for an empty frame
MinTs(df) == IF Len(df) = 0 THEN NaT ELSE Min({df[i].data_pagamento : i \in 1..Len(df)})
MaxTs(df) == IF Len(df) = 0 THEN NaT ELSE Max({df[i].data_pagamento : i \in 1..Len(df)})

\* st.date_input raises on a NaT bound (date.strftime of NaT)
DateInputRaises(min_date, max_date) == min_date = NaT \/ max_date = NaT

\* the values st.date_input can return: one day while the range is being
\* picked, else (start, end), within [min_value, max_value]
DateRanges(min_date, max_date) ==
    {<<d>> : d \in min_date..max_date}
        \cup {r \in (min_date..max_date) \X (min_date..max_date) : r[1] <= r[2]}

\* Series.between(start, end), inclusive="both"
Between(ts, start, end) == start <= ts /\ ts <= end

\* lines 185-187
FilterDate(df_pago, date_range) ==
    IF Len(date_range) = 2
    THEN SelectSeq(df_pago,
             LAMBDA r : Between(r.data_pagamento, Midnight(date_range[1]),
                                Midnight(date_range[2])))
    ELSE df_pago

\* a variant of IsIn in which an empty selection selects everything
IsIn_EmptyIsAll(x, values) == values = {} \/ x \in values

\* Series.isin(values)
IsIn(x, values) == x \in values

\* lines 188-189
FilterSelection(df, selected_correspondentes, selected_rms) ==
    SelectSeq(df, LAMBDA r : IsIn(r.correspondente, selected_correspondentes)
                             /\ IsIn(r.numero_rm, selected_rms))

\* sorted(df[col].unique())
SortedUnique(df, col) == SortedStrs({df[i][col] : i \in 1..Len(df)})

\* Series.sum() of valor_total_pago
RECURSIVE SumTotal(_)
SumTotal(df) ==
    IF Len(df) = 0 THEN 0 ELSE df[1].valor_total_pago + SumTotal(Tail(df))

\* df.groupby(col)['valor_total_pago'].sum() for one key
GroupSum(df, col, k) == SumTotal(SelectSeq(df, LAMBDA r : r[col] = k))

\* groupby(col)[...].sum().idxmax(): groups come in sorted key order and
\* idxmax takes the first maximum
GroupIdxMax(df, col) ==
    LET keys == SortedUnique(df, col)
        best == Max({GroupSum(df, col, keys[i]) : i \in 1..Len(keys)})
    IN  keys[Min({i \in 1..Len(keys) : GroupSum(df, col, keys[i]) = best})]

\* df.loc[df['valor_total_pago'].idxmax()]: the first row with the largest total
MaiorFaturaRow(df) ==
    LET best == Max({df[i].valor_total_pago : i \in 1..Len(df)})
    IN  df[Min({i \in 1..Len(df) : df[i].valor_total_pago = best})]

\* display_visao_geral: the four KPI metrics (lines 73-82)
Metrics(df_pago) ==
    IF Len(df_pago) # 0
    THEN <<format_currency(SumTotal(df_pago)),
           format_currency(MaiorFaturaRow(df_pago).valor_total_pago),
           GroupIdxMax(df_pago, "numero_rm"),
           GroupIdxMax(df_pago, "correspondente")>>
    ELSE <<format_currency(0), S_NA, S_NA, S_NA>>

\* display_visao_geral: what is put on the page besides the metrics
ShownVisaoGeral(df_pago) ==
    IF Len(df_pago) # 0 THEN {"fig_bar_stacked", "fig_treemap"} ELSE {}

\* display_correspondentes: what is put on the page (lines 141-160)
ShownCorrespondentes(df_pago, df_pendente) ==
    (IF Len(df_pago) # 0 THEN {"ranking", "fig_pie"}
     ELSE {"Não há pagamentos para exibir o ranking."})
    \cup (IF Len(df_pendente) # 0 THEN {"pendencias"}
          ELSE {"Não há faturas pendentes."})

\* lines 110-111: [int(r) for r in lista_rms if r.isdigit()]
NumericRms(lista_rms) == {IntOf(lista_rms[i]) : i \in {j \in 1..Len(lista_rms) : IsDigit(lista_rms[j])}}

\* line 111: default_rm_val
DefaultRm(lista_rms) ==
    IF NumericRms(lista_rms) # {} THEN <<StrOfInt(Max(NumericRms(lista_rms)))>>
    ELSE IF Len(lista_rms) # 0 THEN <<lista_rms[1]>>
    ELSE <<>>

\* st.multiselect raises when a default value is not among the options
MultiselectRaises(options, default) == ~(Range(default) \subseteq Range(options))

\* display_rm_detalhado: what is put on the page for a selection (lines 113-134)
ShownRmDetalhado(df_completo, rm_selecionados) ==
    IF rm_selecionados = {} THEN {}
    ELSE LET df_rm == SelectSeq(df_completo, LAMBDA r : IsIn(r.numero_rm, rm_selecionados))
             df_rm_pago == SelectSeq(df_rm, LAMBDA r : r.status = "Pago")
         IN  (IF Len(df_rm_pago) # 0 THEN {"fig_bar_rm"}
              ELSE {"Não há pagamentos para os RMs selecionados."})
             \cup {"df_tabela"}

Pages == {"Visão Geral", "RM Detalhado", "Correspondentes"}

\* a run of the script that has done nothing yet
NoCycle ==
    [params |-> <<"", "", "">>, at |-> 0, hit |-> FALSE, isNone |-> TRUE,
     outcome |-> "none", raisedAt |-> "", steps |-> <<>>, msgs |-> <<>>,
     paid_o |-> <<>>, pending_o |-> <<>>,
     min_date |-> NaT, max_date |-> NaT, date_range |-> <<>>,
     correspondentes |-> <<>>, rms |-> <<>>,
     selected_correspondentes |-> {}, selected_rms |-> {},
     paid_f |-> <<>>, pending_f |-> <<>>,
     page |-> "", metrics |-> <<>>, shown |-> {},
     lista_rms |-> <<>>, default_rm |-> <<>>, rm_selecionados |-> {}]

\* lines 165-168: load_data returned (None, None): the error is shown, st.stop()
StoppedCycle(params, hit, res) ==
    [NoCycle EXCEPT !.params = params, !.hit = hit, !.isNone = TRUE,
        !.outcome = "stopped",
        !.steps = <<"load_data", "st.stop">>,
        !.msgs = res.msgs \o <<ErrorMsg("falha_ao_carregar", {})>>]

\* a variant of LoadFailed without the test: the script goes on
LoadFailed_NoGuard(res) == FALSE

\* line 166: the test that sends the script to st.stop()
LoadFailed(res) == res.isNone

\* lines 169-174, up to the date input
LoadedCycle(params, hit, res) ==
    [NoCycle EXCEPT !.params = params, !.hit = hit, !.isNone = FALSE,
        !.msgs = res.msgs \o <<ErrorMsg("dados_carregados", {})>>,
        !.paid_o = res.paid, !.pending_o = res.pending,
        !.min_date = DateOf(MinTs(res.paid)),
        !.max_date = DateOf(MaxTs(res.paid))]

\* lines 176-189: the sidebar selections and the filtered frames
FilteredCycle(c, date_range, selected_correspondentes, selected_rms) ==
    LET df_completo_original == c.paid_o \o c.pending_o
    IN  [c EXCEPT
            !.date_range = date_range,
            !.correspondentes = SortedUnique(df_completo_original, "correspondente"),
            !.rms = SortedUnique(df_completo_original, "numero_rm"),
            !.selected_correspondentes = selected_correspondentes,
            !.selected_rms = selected_rms,
            !.paid_f = FilterSelection(FilterDate(c.paid_o, date_range),
                                       selected_correspondentes, selected_rms),
            !.pending_f = FilterSelection(c.pending_o, selected_correspondentes,
                                          selected_rms)]

\* lines 194-199 for the page chosen; rm_selecionados is the selection made
\* in the multiselect of "RM Detalhado"
PageCycle(c, page, rm_selecionados) ==
    CASE page = "Visão Geral" ->
            [c EXCEPT !.page = page, !.outcome = "done",
                !.steps = <<"load_data", "date_input", "filter", "display_visao_geral">>,
                !.metrics = Metrics(c.paid_f),
                !.shown = ShownVisaoGeral(c.paid_f)]
      [] page = "Correspondentes" ->
            [c EXCEPT !.page = page, !.outcome = "done",
                !.steps = <<"load_data", "date_input", "filter", "display_correspondentes">>,
                !.shown = ShownCorrespondentes(c.paid_f, c.pending_f)]
      [] OTHER ->
            LET df_completo == c.paid_f \o c.pending_f
                lista_rms == SortedUnique(df_completo, "numero_rm")
                default_rm_val == DefaultRm(lista_rms)
                d == [c EXCEPT !.page = page,
                        !.steps = <<"load_data", "date_input", "filter", "display_rm_detalhado">>,
                        !.lista_rms = lista_rms,
                        !.default_rm = default_rm_val]
            IN  IF MultiselectRaises(lista_rms, default_rm_val)
                THEN [d EXCEPT !.outcome = "raised", !.raisedAt = "multiselect"]
                ELSE [d EXCEPT !.outcome = "done",
                        !.rm_selecionados = rm_selecionados,
                        !.shown = ShownRmDetalhado(df_completo, rm_selecionados)]

\* every way one run of the script can go, given what load_data returned
Cycles(params, hit, res) ==
    IF LoadFailed(res) THEN {StoppedCycle(params, hit, res)}
    ELSE LET c == LoadedCycle(params, hit, res)
         IN  IF DateInputRaises(c.min_date, c.max_date)
             THEN {[c EXCEPT !.outcome = "raised", !.raisedAt = "date_input",
                       !.steps = <<"load_data", "date_input">>]}
             ELSE LET all == c.paid_o \o c.pending_o
                      corr == Range(SortedUnique(all, "correspondente"))
                      rms == Range(SortedUnique(all, "numero_rm"))
                  IN  UNION {
                        LET f == FilteredCycle(c, dr, sc, sr)
                            opts == Range(SortedUnique(f.paid_f \o f.pending_f, "numero_rm"))
                        IN  {PageCycle(f, "Visão Geral", {}),
                             PageCycle(f, "Correspondentes", {})}
                            \cup {PageCycle(f, "RM Detalhado", sel) : sel \in SUBSET opts}
                        : dr \in DateRanges(c.min_date, c.max_date),
                          sc \in SUBSET corr, sr \in SUBSET rms}

----------------------------------------------------------------------------
(* The files and the secrets the model runs on *)

AllColumns == SourceColumns \cup {"Observação"}

\* a data row of the sheet: every cell filled, to be varied with EXCEPT
BaseRow ==
    [h \in AllColumns |->
        CASE h = "Data de Pagamento" -> Dt(HoursPerDay)
          [] h = "Valor em R$" -> Num(100)
          [] h = "Número do RM" -> Str(S_7)
          [] h = "Correspondente" -> Str(S_Acme)
          [] h = "ND recebida" -> Str(S_ND1)
          [] h = "IOF" -> Num(1)
          [] h = "TX CONTRATO" -> Num(2)
          [] h = "IRRF" -> Num(3)
          [] h = "CIDE" -> Num(4)
          [] h = "Moeda" -> Str(S_USD)
          [] h = "Valor" -> Num(20)
          [] OTHER -> Str(S_abc)]

SheetOf(columns, rows) ==
    [protected |-> TRUE, pwd |-> "", columns |-> columns,
     rows |-> [i \in 1..Len(rows) |-> [h \in columns |-> rows[i][h]]]]

MissingFile == [kind |-> "missing", sheets |-> <<>>]
CorruptFile == [kind |-> "corrupt", sheets |-> <<>>]
WorkbookOf(sheet) == [kind |-> "workbook", sheets |-> [n \in {"Faturas"} |-> sheet]]

SeqsUpTo(S, n) == UNION {[1..k -> S] : k \in 0..n}

\* payment-date cells: blank, text that is no date, and date-times at
\* midnight and at noon of the days 1..MaxDay
DateCells ==
    {Blank, Str(S_abc)} \cup {Dt(d * HoursPerDay + h) : d \in 1..MaxDay, h \in {0, 12}}

\* rows that differ in payment date, counterparty and reference number
FilterRows ==
    {[BaseRow EXCEPT !["Data de Pagamento"] = d, !["Correspondente"] = c[1],
                     !["Número do RM"] = c[2]] :
        d \in DateCells,
        c \in {<<Str(S_Acme), Str(S_7)>>, <<Blank, Str(S_A1)>>}}

\* amount cells: blank, text, a decimal comma, a negative, a number, digits as text
AmountCells == {Blank, Str(S_abc), Str(S_1500c50), Num(-5), Num(250), Str(S_7)}

AmountRows ==
    {[BaseRow EXCEPT !["Valor em R$"] = a, !["IOF"] = b, !["TX CONTRATO"] = c,
                     !["IRRF"] = c, !["CIDE"] = c, !["Valor"] = c] :
        a \in AmountCells, b \in AmountCells, c \in {Blank, Num(-5), Num(3)}}

\* reference-number cells: digits, leading zeros, letters, a number, blank
RmCells == {Str(S_7), Str(S_07), Str(S_10), Str(S_A1), Num(7), Blank}

RmRows ==
    {[BaseRow EXCEPT !["Número do RM"] = r, !["Data de Pagamento"] = d] :
        r \in RmCells, d \in {Dt(HoursPerDay), Blank}}

\* a workbook without the sheet the secrets name
OtherSheetFile ==
    [kind |-> "workbook", sheets |-> [n \in {"Planilha1"} |-> SheetOf(AllColumns, <<BaseRow>>)]]

\* the workbooks of the data specification
DataFiles ==
    {WorkbookOf(SheetOf(AllColumns, rows)) : rows \in SeqsUpTo(FilterRows, MaxRows)}
    \cup {WorkbookOf(SheetOf(AllColumns, <<r>>)) : r \in AmountRows}
    \cup {WorkbookOf(SheetOf(AllColumns, rows)) : rows \in SeqsUpTo(RmRows, MaxRows)}
    \cup {WorkbookOf(SheetOf(AllColumns \ X, <<BaseRow, [BaseRow EXCEPT !["Data de Pagamento"] = Blank]>>)) :
            X \in {Y \in SUBSET AllColumns : Cardinality(Y) <= 1}}
    \cup {MissingFile, CorruptFile, OtherSheetFile}

\* the files of the life-cycle specification
GoodFile ==
    WorkbookOf(SheetOf(AllColumns, <<BaseRow, [BaseRow EXCEPT !["Data de Pagamento"] = Blank]>>))
LifeFiles == {MissingFile, CorruptFile, GoodFile}

Paths == {"a.xlsx", "b.xlsx"}

\* the values st.secrets["file_credentials"] takes
SecretChoices ==
    {<<"a.xlsx", "Faturas", "s3nha">>, <<"a.xlsx", "Faturas", "">>,
     <<"b.xlsx", "Outra", "s3nha">>}

----------------------------------------------------------------------------
(* Actions *)

\* a run whose widgets hold the values a new session starts with: the whole
\* date range (line 174), every counterparty and reference number (lines
\* 176-182, "select all" ticked) and the default of the multiselect (line 112)
AtDefaults(c) ==
    \/ c.outcome \in {"stopped", "raised"}
    \/ /\ c.date_range = <<c.min_date, c.max_date>>
       /\ c.selected_correspondentes = Range(c.correspondentes)
       /\ c.selected_rms = Range(c.rms)
       /\ c.page = "RM Detalhado" => c.rm_selecionados = Range(c.default_rm)

OpenCycles(params, hit, res) == {c \in Cycles(params, hit, res) : AtDefaults(c)}

\* one run of the script: the memoized call of load_data (line 165) and
\* everything below it; with untouched the widgets hold their defaults
Run(untouched) ==
    LET key == CacheKey(secrets[1], secrets[2], secrets[3])
        hit == Fresh(cache[key], now)
        res == IF hit THEN cache[key].value
               ELSE load_data(disk[secrets[1]], secrets[1], secrets[2], secrets[3])
    IN  /\ cache' = IF hit THEN cache
                    ELSE [cache EXCEPT ![key] = [present |-> TRUE, stamp |-> now, value |-> res]]
        /\ reads' = IF hit THEN reads ELSE [reads EXCEPT ![secrets] = Append(@, now)]
        /\ cycle' \in {[c EXCEPT !.at = now] :
                        c \in IF untouched THEN OpenCycles(secrets, hit, res)
                              ELSE Cycles(secrets, hit, res)}
        /\ UNCHANGED <<disk, now, secrets>>

\* a run of the script with any widget values
Rerun == Run(FALSE)

\* a session opens the dashboard, or picks a page, the filters untouched
OpenPage == Run(TRUE)

\* time passes
Tick ==
    /\ now + TickStep <= MaxTime
    /\ now' = now + TickStep
    /\ UNCHANGED <<disk, secrets, cache, reads, cycle>>

\* the spreadsheet is replaced, removed or damaged outside the program
WriteFile ==
    \E f \in LifeFiles :
        /\ f # disk["a.xlsx"]
        /\ disk' = [disk EXCEPT !["a.xlsx"] = f]
        /\ UNCHANGED <<now, secrets, cache, reads, cycle>>

\* secrets.toml is edited
ChangeSecrets ==
    \E k \in SecretChoices :
        /\ k # secrets
        /\ secrets' = k
        /\ UNCHANGED <<disk, now, cache, reads, cycle>>

InitCommon ==
    /\ now = 0
    /\ cache = [k \in SecretChoices |-> NoEntry]
    /\ reads = [k \in SecretChoices |-> <<>>]
    /\ cycle = NoCycle

Init ==
    /\ InitCommon
    /\ disk \in [Paths -> {MissingFile, GoodFile}]
    /\ disk["b.xlsx"] = MissingFile
    /\ secrets \in SecretChoices

Next == OpenPage \/ Tick \/ WriteFile \/ ChangeSecrets

Spec == Init /\ [][Next]_vars

\* the data specification: any workbook of DataFiles, loaded and shown
InitData ==
    /\ InitCommon
    /\ \E f \in DataFiles : disk = [p \in Paths |-> IF p = "a.xlsx" THEN f ELSE MissingFile]
    /\ secrets = <<"a.xlsx", "Faturas", "s3nha">>

\* the script runs once on the workbook
RerunOnce == cycle.outcome = "none" /\ Rerun

NextData == RerunOnce

SpecData == InitData /\ [][NextData]_vars

----------------------------------------------------------------------------
(* Properties *)

Ran == cycle.outcome # "none"

\* the sheet the data specification loads
TheFile == disk["a.xlsx"]
TheTable == TheFile.sheets["Faturas"]

Loaded == cycle.paid_o \o cycle.pending_o

IdxOf(df) == {df[i].idx : i \in 1..Len(df)}
Increasing(df) == \A i, j \in 1..Len(df) : i < j => df[i].idx < df[j].idx

FilterRan == "filter" \in Range(cycle.steps)

\* C1: the paid partition holds exactly the records with a payment date
\* (status Pago), the pending partition exactly those without (status
\* Pendente); every record of the normalized table is in exactly one of
\* them, the sizes add up to the record count, and each partition keeps the
\* records in their original order.
C1_Partition ==
    (Ran /\ ~cycle.isNone) =>
        LET df == Normalize(TheTable)
            paid == cycle.paid_o
            pending == cycle.pending_o
        IN  /\ \A i \in 1..Len(paid) :
                 paid[i].status = "Pago" /\ paid[i].data_pagamento # NaT
            /\ \A i \in 1..Len(pending) :
                 pending[i].status = "Pendente" /\ pending[i].data_pagamento = NaT
            /\ \A i \in 1..Len(df) :
                 (df[i].data_pagamento # NaT) <=> (df[i].idx \in IdxOf(paid))
            /\ \A i \in 1..Len(df) :
                 (df[i].data_pagamento = NaT) <=> (df[i].idx \in IdxOf(pending))
            /\ IdxOf(paid) \cap IdxOf(pending) = {}
            /\ IdxOf(paid) \cup IdxOf(pending) = {i - 1 : i \in 1..Len(TheTable.rows)}
            /\ Len(paid) + Len(pending) = Len(TheTable.rows)
            /\ Increasing(paid) /\ Increasing(pending)
            /\ \A i \in 1..Len(Loaded) : Loaded[i] = df[Loaded[i].idx + 1]

\* a load of a pending record followed by a paid one
C1_Witness ==
    /\ Ran /\ ~cycle.isNone
    /\ Len(cycle.paid_o) = 1 /\ Len(cycle.pending_o) = 1
    /\ cycle.pending_o[1].idx = 0 /\ cycle.paid_o[1].idx = 1

\* what makes load_data fail on a file: it is missing or unreadable, the
\* sheet is absent, or a column that lines 53-58 index is absent
Broken(file, sheet_name) ==
    \/ file.kind # "workbook"
    \/ sheet_name \notin DOMAIN file.sheets
    \/ ~(SourceColumns \subseteq file.sheets[sheet_name].columns)

LoadErrors == {"arquivo_nao_encontrado", "aba_nao_encontrada", "erro_ao_carregar"}

Halted(c) ==
    /\ c.outcome = "stopped" /\ c.isNone
    /\ Range(c.steps) \cap {"filter", "date_input", "display_visao_geral",
                            "display_rm_detalhado", "display_correspondentes"} = {}
    /\ c.paid_o = <<>> /\ c.pending_o = <<>> /\ c.paid_f = <<>> /\ c.pending_f = <<>>
    /\ c.page = "" /\ c.metrics = <<>> /\ c.shown = {}
    /\ Len(c.msgs) = 2
    /\ c.msgs[1].kind \in LoadErrors
    /\ c.msgs[2].kind = "falha_ao_carregar"

\* C2: on a load-time error (file not found, sheet absent, any other
\* exception while loading or normalizing) the run shows the error and
\* halts: no filter, no page renderer, no partition passed on.
C2_ErrorHalts ==
    /\ (Ran /\ Broken(TheFile, secrets[2])) => Halted(cycle)
    /\ (Ran /\ \E i \in 1..Len(cycle.msgs) : cycle.msgs[i].kind \in LoadErrors) => Halted(cycle)

\* a run halted by an absent sheet, with the sheets present listed
C2_Witness ==
    /\ cycle.outcome = "stopped"
    /\ cycle.msgs[1] = ErrorMsg("aba_nao_encontrada", {"Planilha1"})

\* C3: for calls with the same (path, sheet, password) the file is read at
\* most once per TTL window; a call inside the window is served the stored
\* result of the read that opened it, and a call with another triple is
\* never served from that read.
C3_ReadOncePerWindow ==
    /\ \A p \in SecretChoices : \A i, j \in 1..Len(reads[p]) :
          i < j => reads[p][j] - reads[p][i] >= TTL
    /\ Ran => \E i \in 1..Len(reads[cycle.params]) :
                 /\ reads[cycle.params][i] <= cycle.at
                 /\ cycle.at < reads[cycle.params][i] + TTL
    /\ (Ran /\ cycle.hit) =>
          LET e == cache[cycle.params]
          IN  /\ e.present /\ e.stamp <= cycle.at
              /\ cycle.isNone = e.value.isNone
              /\ cycle.paid_o = e.value.paid /\ cycle.pending_o = e.value.pending

\* a run served from the store, after the triple was read, expired and read
\* again, while another triple has been read too
C3_Witness ==
    /\ Ran /\ cycle.hit /\ ~cycle.isNone
    /\ Len(reads[cycle.params]) = 2
    /\ cache[cycle.params].stamp < cycle.at
    /\ \E p \in SecretChoices \ {cycle.params} : p[1] = cycle.params[1] /\ reads[p] # <<>>

\* C4: a sheet that lacks recognized source columns is still loaded: the
\* partitions are returned, the absent columns left out.
C4_AbsentColumnsTolerated ==
    (/\ Ran
     /\ TheFile.kind = "workbook"
     /\ "Faturas" \in DOMAIN TheFile.sheets
     /\ ~(SourceColumns \subseteq TheTable.columns))
        => /\ ~cycle.isNone
           /\ Len(cycle.paid_o) + Len(cycle.pending_o) = Len(TheTable.rows)

\* C5: with no counterparty selected, or no reference number selected, the
\* filtered paid and pending frames are both empty, whatever the date range
\* and the other selection.
C5_EmptySelection ==
    (FilterRan /\ (cycle.selected_correspondentes = {} \/ cycle.selected_rms = {}))
        => cycle.paid_f = <<>> /\ cycle.pending_f = <<>>

\* nothing selected among the counterparties, everything else left open, on
\* a load with paid and pending records
C5_Witness ==
    /\ FilterRan
    /\ cycle.selected_correspondentes = {}
    /\ cycle.selected_rms = Range(cycle.rms)
    /\ cycle.date_range = <<cycle.min_date, cycle.max_date>>
    /\ cycle.paid_o # <<>> /\ cycle.pending_o # <<>>

Selected(r) ==
    /\ r.correspondente \in cycle.selected_correspondentes
    /\ r.numero_rm \in cycle.selected_rms

\* C6: the date range filters the paid frame only, inclusive on both ends: a
\* paid record is kept iff it is dated from the start day to the end day
\* (one dated on the end day is kept); the pending frame depends on the two
\* selections alone.
C6_DateInclusive ==
    (FilterRan /\ Len(cycle.date_range) = 2) =>
        /\ \A i \in 1..Len(cycle.paid_o) :
              LET r == cycle.paid_o[i]
              IN  Selected(r) =>
                    ((r \in Range(cycle.paid_f))
                        <=> (/\ cycle.date_range[1] <= DateOf(r.data_pagamento)
                             /\ DateOf(r.data_pagamento) <= cycle.date_range[2]))
        /\ \A i \in 1..Len(cycle.pending_o) :
              (cycle.pending_o[i] \in Range(cycle.pending_f)) <=> Selected(cycle.pending_o[i])

\* C7: empty paid or pending frames give zeroed / placeholder results and no
\* exception: the Overview KPIs of an empty paid frame are R$ 0,00, N/A,
\* N/A, N/A; the ranking and the pending breakdown show their placeholder.
C7_EmptyHandled ==
    (/\ Ran /\ ~cycle.isNone
     /\ cycle.page # "RM Detalhado"
     /\ \/ cycle.paid_o = <<>> \/ cycle.pending_o = <<>>
        \/ cycle.paid_f = <<>> \/ cycle.pending_f = <<>>)
        => /\ cycle.outcome = "done"
           /\ (cycle.page = "Visão Geral" /\ cycle.paid_f = <<>>)
                 => cycle.metrics = <<format_currency(0), S_NA, S_NA, S_NA>>
           /\ (cycle.page = "Correspondentes" /\ cycle.paid_f = <<>>)
                 => "Não há pagamentos para exibir o ranking." \in cycle.shown
           /\ (cycle.page = "Correspondentes" /\ cycle.pending_f = <<>>)
                 => "Não há faturas pendentes." \in cycle.shown

AmountsOf(r) ==
    {r.valor_principal_rs, r.iof, r.tx_contrato, r.irrf, r.cide, r.valor_moeda_origem}

\* C8 as stated: after normalization no record carries a negative amount.
C8_NonNegative ==
    \A i \in 1..Len(Loaded) : \A a \in AmountsOf(Loaded[i]) : a >= 0

\* C8, amended: after normalization every amount is a number: a blank cell
\* and text that is no number become 0, and a numeric cell keeps its value,
\* a negative one included.
C8_Coerced ==
    (Ran /\ ~cycle.isNone) =>
        \A i \in 1..Len(Loaded) : \A k \in 1..Len(numeric_cols) :
            LET r == Loaded[i]
                c == TheTable.rows[r.idx + 1][HeaderOf(numeric_cols[k])]
            IN  /\ c.t = "num" => r[numeric_cols[k]] = c.n
                /\ c.t = "nan" => r[numeric_cols[k]] = 0
                /\ c.s \in {S_abc, S_1500c50} => r[numeric_cols[k]] = 0

\* a record with a negative principal and an IOF of 0 from text
C8_Witness ==
    /\ Ran /\ ~cycle.isNone /\ Len(Loaded) = 1
    /\ Loaded[1].valor_principal_rs = -5
    /\ TheTable.rows[1]["IOF"] = Str(S_1500c50) /\ Loaded[1].iof = 0

\* C9: a failed load is memoized like a successful one: a later run with the
\* same triple inside the TTL window gets the stored failure and halts, the
\* file not being read again, even if it has become readable; the file is
\* read again only once the entry has expired.
C9_FailureMemoized ==
    (Ran /\ cycle.isNone) =>
        LET e == cache[cycle.params]
            r == reads[cycle.params]
        IN  /\ e.present /\ e.value.isNone
            /\ e.stamp <= cycle.at /\ cycle.at < e.stamp + TTL
            /\ r # <<>> /\ r[Len(r)] = e.stamp
            /\ \A i \in 1..(Len(r) - 1) : r[i] + TTL <= r[Len(r)]
            /\ ~cycle.hit => e.stamp = cycle.at
            /\ e.stamp < cycle.at => cycle.hit
            /\ cycle.outcome = "stopped"
            /\ cycle.msgs = e.value.msgs \o <<ErrorMsg("falha_ao_carregar", {})>>

\* a run halted by a stored failure while the file on disk would load
C9_Witness ==
    /\ Ran /\ cycle.isNone /\ cycle.hit
    /\ cycle.at = now /\ secrets = cycle.params
    /\ cache[cycle.params].stamp < cycle.at
    /\ ~load_data(disk[secrets[1]], secrets[1], secrets[2], secrets[3]).isNone

\* C10: in "RM Detalhado" the default of the multiselect is among its
\* options: the reference number with the largest numeric value when some
\* reference number is all digits, else the first option, and empty only
\* when there are no options.
C10_DefaultInOptions ==
    (Ran /\ "display_rm_detalhado" \in Range(cycle.steps)) =>
        LET options == Range(cycle.lista_rms)
            digits == {o \in options : IsDigit(o)}
        IN  /\ Range(cycle.default_rm) \subseteq options
            /\ digits # {} =>
                  \E o \in digits :
                      /\ cycle.default_rm = <<o>>
                      /\ \A q \in digits : IntOf(q) <= IntOf(o)
            /\ (digits = {} /\ options # {}) => cycle.default_rm = <<cycle.lista_rms[1]>>
            /\ (cycle.default_rm = <<>>) <=> (options = {})

====
